---- MODULE Spec2Model ----
(***************************************************************************)
(* The multi-chain Safe-wallet onboarding provider (OnboardingProvider)    *)
(* of the FlowForge front end, with the two primitives it calls            *)
(* (waitForChain, verifyModuleEnabled), as a state machine.                *)
(*                                                                         *)
(* Every await of the source is a yield point: an action of the model is   *)
(* the synchronous code that runs between two awaits.  React effects run   *)
(* as part of the action that changes one of their dependencies.           *)
(***************************************************************************)
EXTENDS Integers, Sequences, FiniteSets, TLC

(***************************************************************************)
(* Bounds of the model.                                                    *)
(***************************************************************************)
\* concurrent startOnboarding / retryChain invocations in flight
MaxProcs == 2
\* checkUser fetches in flight at the same time
MaxChecks == 1
\* on-chain reads that still answer "disabled" after a submitted transaction
MaxLag == 2
\* polls waitForChain makes before its timeout expires (timeoutMs / 100 ms)
MaxPolls == 2
\* startOnboarding / retryChain invocations that enter processChain or the loop
MaxOps == 2
\* the same, in the specification that also runs the session (login, checkUser)
MaxSessionOps == 1
MaxShows == 2
MaxAuth == 2
maxPolls == 2

(***************************************************************************)
(* Program constants.                                                      *)
(***************************************************************************)
\* maxRetries handed to verifyModuleEnabled by processChain
VerifyMaxRetries == 5
\* default maxRetries of verifyModuleEnabled
DefaultMaxRetries == 3
SepoliaChainId == 11155111
MainnetChainId == 1

(***************************************************************************)
(* Static chain configuration (ChainInfo: id, chainId, isTestnet).         *)
(***************************************************************************)
NoChain == "none"
ChainIds == {"sepolia", "mainnet"}
NumericChainId(c) == IF c = "sepolia" THEN SepoliaChainId ELSE MainnetChainId
\* getChain(chainId): the registry entry of a numeric chain id, or NoChain
getChain(n) ==
    IF \E c \in ChainIds : NumericChainId(c) = n
    THEN CHOOSE c \in ChainIds : NumericChainId(c) = n
    ELSE NoChain
isTestnet(c) == c = "sepolia"
\* the chain lists validateAndGetOnboardingChains can resolve to
ConfigLists == { <<"sepolia", "mainnet">>, <<"mainnet">> }
Range(s) == { s[i] : i \in 1..Len(s) }

(***************************************************************************)
(* ChainProgress                                                           *)
(***************************************************************************)
Status == {"idle", "pending", "success", "error"}
Steps == <<"walletCreate", "moduleSign", "moduleEnable", "moduleVerify">>
NoError == "undefined"
NoAddress == "undefined"
SafeAddressOf(c) == "safe-" \o c

IdleProgress ==
    [walletCreate |-> "idle", moduleSign |-> "idle", moduleEnable |-> "idle",
     moduleVerify |-> "idle", error |-> NoError, safeAddress |-> NoAddress]
SuccessProgress ==
    [walletCreate |-> "success", moduleSign |-> "success", moduleEnable |-> "success",
     moduleVerify |-> "success", error |-> NoError, safeAddress |-> NoAddress]

initializeProgress(chains) == [c \in Range(chains) |-> IdleProgress]

\* the update written into every chain's entry instead of chainKey's alone
SetFields_AllChains(prog, c, fields) ==
    [k \in DOMAIN prog |-> fields @@ prog[k]]

\* setProgress(prev => ({...prev, [chainKey]: {...prev[chainKey], ...fields}}))
SetFields(prog, c, fields) ==
    [k \in DOMAIN prog |-> IF k = c THEN fields @@ prog[k] ELSE prog[k]]

AllSuccess(p) ==
    /\ p.walletCreate = "success"
    /\ p.moduleSign = "success"
    /\ p.moduleEnable = "success"
    /\ p.moduleVerify = "success"
AllIdle(p) ==
    /\ p.walletCreate = "idle"
    /\ p.moduleSign = "idle"
    /\ p.moduleEnable = "idle"
    /\ p.moduleVerify = "idle"

(***************************************************************************)
(* Error messages                                                          *)
(***************************************************************************)
CreateErrorMsg == "createSafeWallet: error"
SignErrorMsg == "signEnableModule: error"
SubmitErrorMsg == "submitEnableModule: error"
SwitchErrorMsg == "Failed to switch to chain"
TimeoutMsg == "Failed to switch to chain: Timeout waiting for chain to become active"
NotEnabledMsg == "Module not enabled after transaction"
VerifyFailedMsg == "Verification failed: ..."
ThrownMsg == "thrown"

(***************************************************************************)
(* User onboarding record of the backend (UserData) and fetch results.     *)
(***************************************************************************)
NoRecord == [exists |-> FALSE, testnet |-> FALSE, mainnet |-> FALSE]
UserRecords ==
    {NoRecord} \cup
    { [exists |-> TRUE, testnet |-> t, mainnet |-> m] : t \in BOOLEAN, m \in BOOLEAN }

\* the filter with the two wallet fields taken for each other
RequiresSetup_FieldsSwapped(c, user) ==
    LET g == getChain(NumericChainId(c)) IN
    IF g # NoChain /\ isTestnet(g) THEN ~user.mainnet
    ELSE IF g # NoChain /\ ~isTestnet(g) THEN ~user.testnet
    ELSE TRUE

\* checkUser's filter: does a configured chain still need setup for this user
RequiresSetup(c, user) ==
    LET g == getChain(NumericChainId(c)) IN
    IF g # NoChain /\ isTestnet(g) THEN ~user.testnet
    ELSE IF g # NoChain /\ ~isTestnet(g) THEN ~user.mainnet
    ELSE TRUE
\* checkUser's hasWallet of the pre-fill loop
HasWallet(c, user) ==
    LET g == getChain(NumericChainId(c)) IN
    IF g # NoChain /\ isTestnet(g) THEN user.testnet
    ELSE IF g # NoChain /\ ~isTestnet(g) THEN user.mainnet
    ELSE FALSE

(***************************************************************************)
(* Identifiers handed to retryChain: a stable id (string) or a numeric     *)
(* chain id.                                                               *)
(***************************************************************************)
IdentOfString(s) == [str |-> s, num |-> -1]
IdentOfNumber(n) == [str |-> "", num |-> n]
NoIdent == [str |-> "", num |-> -1]
Identifiers ==
    { IdentOfString("sepolia"), IdentOfString("mainnet"), IdentOfString("unknown"),
      IdentOfNumber(SepoliaChainId), IdentOfNumber(MainnetChainId), IdentOfNumber(5) }
\* the comparison with the chain id lost: c.id === identifier || c.chainId
IdentifierMatch_AnyChainId(c, ident) ==
    \/ ident.str # "" /\ c = ident.str
    \/ NumericChainId(c) # 0

\* c.id === identifier || c.chainId === identifier
IdentifierMatch(c, ident) ==
    \/ ident.str # "" /\ c = ident.str
    \/ ident.num # -1 /\ NumericChainId(c) = ident.num

(***************************************************************************)
(* The Slack, Telegram and Email hooks: notifications and their            *)
(* auto-dismiss timers, and the OAuth polling of the Slack hook.           *)
(***************************************************************************)
Hooks == {"slack", "telegram", "email"}
NotificationTypes == {"success", "error"}

\* useRef(null): no timer or interval handle stored
NoHandle == 0
\* useState(null): nothing shown.  A notification is identified by its number
\* among the notifications its hook has shown; the handle setTimeout returns
\* for its timer is that number too.
NoNotification == [id |-> 0, type |-> "none"]

\* a hook as mounted: its notification, the ref to the last timer started, the
\* timers pending, and how many notifications it has shown
MountedHook ==
    [ mounted |-> TRUE, notification |-> NoNotification,
      notificationTimeoutRef |-> NoHandle, timeouts |-> {}, shown |-> 0 ]

\* the timer is left running
clearTimeout_NotCleared(pending, handle) == pending

\* clearTimeout(handle): a handle that fired or was cleared before does nothing
clearTimeout(pending, handle) == pending \ {handle}

\* if (notificationTimeoutRef.current) clearTimeout(notificationTimeoutRef.current)
ClearPending(n) ==
    IF n.notificationTimeoutRef # NoHandle
    THEN clearTimeout(n.timeouts, n.notificationTimeoutRef)
    ELSE n.timeouts

showNotification(n, type) ==
    LET id == n.shown + 1 IN
    [n EXCEPT !.notification = [id |-> id, type |-> type],
              !.timeouts = ClearPending(n) \cup {id},
              !.notificationTimeoutRef = id,
              !.shown = id]

clearNotification(n) ==
    [n EXCEPT !.timeouts = ClearPending(n), !.notification = NoNotification]

\* the callback given to setTimeout: setNotification(null)
TimeoutFires(n, handle) ==
    [n EXCEPT !.timeouts = @ \ {handle}, !.notification = NoNotification]

\* the cleanup of the mount effect
UnmountHook(n) ==
    [n EXCEPT !.mounted = FALSE, !.timeouts = ClearPending(n)]

\* One invocation of authorizeOAuth: its position, and the pollCount and popup
\* its interval callback closes over.
AuthIds == 1..MaxAuth
FreeAuth == [pc |-> "free", pollCount |-> 0, popup |-> "none"]

\* the Slack hook as mounted: loading.processing, the two OAuth refs, the
\* intervals running (by handle: the invocation that started them)
MountedSlack ==
    [ processing |-> FALSE, oauthTokenRef |-> FALSE, oauthPollIntervalRef |-> NoHandle,
      intervals |-> {}, auths |-> [k \in AuthIds |-> FreeAuth] ]

clearInterval(active, handle) == active \ {handle}

\* if (oauthPollIntervalRef.current) {
\*     clearInterval(oauthPollIntervalRef.current); oauthPollIntervalRef.current = null }
StopPolling(s) ==
    IF s.oauthPollIntervalRef # NoHandle
    THEN [s EXCEPT !.intervals = clearInterval(@, s.oauthPollIntervalRef),
                   !.oauthPollIntervalRef = NoHandle]
    ELSE s

\* the interval replaced: the one in the ref cleared, a new one stored
StartPolling(s, k, popup) ==
    [s EXCEPT !.intervals = (IF s.oauthPollIntervalRef # NoHandle
                             THEN clearInterval(@, s.oauthPollIntervalRef)
                             ELSE @) \cup {k},
              !.oauthPollIntervalRef = k,
              !.auths[k] = [pc |-> "interval", pollCount |-> 0, popup |-> popup]]

\* the catch of authorizeOAuth (its showNotification apart)
AuthorizeCatch(s, k) ==
    [s EXCEPT !.oauthTokenRef = FALSE, !.processing = FALSE, !.auths[k].pc = "done"]

\* One run of the interval callback up to its return or its await: the state
\* of the hook after it and the notification it shows ("none": none).
Tick(s, k) ==
    LET counted == [s EXCEPT !.auths[k].pollCount = @ + 1] IN
    IF ~counted.oauthTokenRef
    THEN [slack |-> [StopPolling(counted) EXCEPT !.processing = FALSE,
                                                 !.auths[k].pc = "done"],
          shows |-> "error"]
    ELSE IF counted.auths[k].pollCount > maxPolls
    THEN [slack |-> [StopPolling(counted) EXCEPT !.oauthTokenRef = FALSE,
                                                 !.processing = FALSE,
                                                 !.auths[k].pc = "done"],
          shows |-> "error"]
    ELSE IF counted.auths[k].popup = "closed"
    THEN [slack |-> [StopPolling(counted) EXCEPT !.processing = FALSE,
                                                 !.auths[k].pc = "connections"],
          shows |-> "none"]
    ELSE [slack |-> counted, shows |-> "none"]

(***************************************************************************)
(* State                                                                   *)
(***************************************************************************)
VARIABLES
    ready,                \* usePrivy().ready
    authenticated,        \* usePrivy().authenticated
    walletAddress,        \* usePrivyWallet().walletAddress is set
    userRecord,           \* the backend's record of the logged-in user
    modePending,          \* validateMode() of the mount effect is in flight
    isModeValid,          \* "null" | "true" | "false"
    chainsToSetup,
    isCheckingUser,
    needsOnboarding,
    isOnboarding,
    progress,
    currentSigningChain,
    walletChoiceCompleted,
    initialCheckDone,
    earlyCheck,           \* the early user-existence fetch is in flight, not cancelled
    checks,               \* checkUser fetches in flight: what each will resolve to
    procs,                \* startOnboarding / retryChain invocations in flight
    ops,                  \* invocations of the two operations so far (bounded)
    hooks,                \* the notification state of each of the three hooks
    slack                 \* the OAuth state of the Slack hook

providerVars ==
    << ready, authenticated, walletAddress, userRecord, modePending, isModeValid,
       chainsToSetup, isCheckingUser, needsOnboarding, isOnboarding, progress,
       currentSigningChain, walletChoiceCompleted, initialCheckDone, earlyCheck, checks,
       procs, ops >>
hookVars == << hooks, slack >>
vars == << providerVars, hookVars >>

authVars == << ready, authenticated, walletAddress, userRecord >>
modeVars == << modePending, isModeValid, chainsToSetup >>
checkVars == << isCheckingUser, walletChoiceCompleted, initialCheckDone, earlyCheck, checks >>

ProcIds == 1..MaxProcs
EmptyProgress == [c \in {} |-> IdleProgress]

\* One invocation of startOnboarding or retryChain: its closure and its locals.
FreeProc ==
    [kind |-> "free",            \* "free" | "start" | "retry"
     pc |-> "free",              \* the await the invocation is suspended at
     chain |-> NoChain,          \* the chain processChain is running for
     idx |-> 0,                  \* position of the for loop of startOnboarding
     ident |-> {},               \* retryChain: the chains its identifier matches
     snap |-> {},                \* what the `progress` captured by the closure says:
                                 \* startOnboarding: the chains it shows complete,
                                 \* retryChain: those it shows at moduleVerify success
     allSuccessful |-> TRUE,
     ret |-> FALSE,              \* what processChain returned
     createResult |-> "none",    \* createResult.success: "none" | "success" | "failure"
     alreadyEnabled |-> FALSE,   \* signResult.data && !signResult.data.safeTxHash
     attempt |-> 0,              \* loop variable of verifyModuleEnabled
     lag |-> 0,                  \* reads that still answer false (environment)
     onTarget |-> FALSE,         \* while at the sign call: the wallet provider
                                 \* reports the target chain as active (environment)
     calls |-> <<>>]             \* collaborator calls of this processChain, in order

Running(p) == procs[p].kind # "free"
FreeSlots == { p \in ProcIds : ~Running(p) }
Min(S) == CHOOSE x \in S : \A y \in S : x <= y

(***************************************************************************)
(* processChain: the code between two awaits, as operators on              *)
(* (invocation, progress, currentSigningChain).                            *)
(***************************************************************************)
St(pr, prog, cur) == [proc |-> pr, prog |-> prog, cur |-> cur]

\* return <value>
Return(pr, value) == [pr EXCEPT !.pc = "returned", !.ret = value]

\* processChain entry up to `await createSafeWallet(...)`
BeginChain(pr, c, prog, cur) ==
    St([pr EXCEPT !.chain = c, !.pc = "create", !.ret = FALSE, !.attempt = 0, !.lag = 0,
                  !.onTarget = FALSE, !.createResult = "none", !.alreadyEnabled = FALSE,
                  !.calls = <<"createSafeWallet">>],
       SetFields(prog, c, [walletCreate |-> "pending", error |-> NoError]),
       cur)

\* processChain without its outer catch: the exception leaves processChain and
\* the operation awaiting it
OuterCatch_Rethrows(pr, prog, cur) ==
    St([pr EXCEPT !.kind = "free", !.pc = "free"], prog, cur)

\* the outer catch of processChain
OuterCatch(pr, prog, cur) ==
    St(Return(pr, FALSE), SetFields(prog, pr.chain, [error |-> ThrownMsg]), cur)

\* createSafeWallet resolved (or rejected) with `r`
AfterCreate(pr0, r, prog, cur) ==
    LET c == pr0.chain
        pr == [pr0 EXCEPT !.createResult =
                 IF r = "ok" THEN "success" ELSE IF r = "fail" THEN "failure" ELSE @]
    IN
    CASE r = "fail" ->
           St(Return(pr, FALSE),
              SetFields(prog, c, [walletCreate |-> "error", error |-> CreateErrorMsg]), cur)
      [] r = "throw" -> OuterCatch(pr, prog, cur)
      [] OTHER ->
           St([pr EXCEPT !.pc = "switch", !.calls = Append(@, "ensureChainSelected")],
              SetFields(prog, c, [walletCreate |-> "success",
                                  safeAddress |-> SafeAddressOf(c),
                                  moduleSign |-> "pending"]),
              c)

\* the catch (switchError) block
SwitchCatch(pr, msg, prog) ==
    St(Return(pr, FALSE),
       SetFields(prog, pr.chain, [moduleSign |-> "error", error |-> msg]),
       NoChain)

\* waitForChain, from its poll number `polls` on; the provider's answer does not
\* change while it waits
RECURSIVE waitForChain(_, _, _)
waitForChain(currentChainId, targetChainId, polls) ==
    IF polls < MaxPolls
    THEN IF currentChainId = targetChainId
         THEN "return"
         ELSE waitForChain(currentChainId, targetChainId, polls + 1)
    ELSE "timeout"

\* the getCurrentChainId callback processChain hands to waitForChain:
\* () => numericChainId
GetCurrentChainId(c, providerChainId) == NumericChainId(c)

\* the chain id the wallet provider reports after the switch request
ProviderChainId(c, followed) == IF followed THEN NumericChainId(c) ELSE 0

\* ensureChainSelected resolved (the provider followed or not) or threw; then
\* waitForChain, then `await signEnableModule(...)`
AfterSwitch(pr, r, followed, prog, cur) ==
    LET c == pr.chain
        w == waitForChain(GetCurrentChainId(c, ProviderChainId(c, followed)),
                          NumericChainId(c), 0)
    IN
    IF r = "throw" THEN SwitchCatch(pr, SwitchErrorMsg, prog)
    ELSE IF w = "return"
    THEN St([pr EXCEPT !.pc = "sign", !.onTarget = followed,
                       !.calls = Append(@, "signEnableModule")], prog, cur)
    ELSE SwitchCatch(pr, TimeoutMsg, prog)

\* the sign step without the already-enabled return of lines 287-295
AfterSign_NoShortCircuit(pr0, r, prog, cur) ==
    LET c == pr0.chain
        pr == [pr0 EXCEPT !.onTarget = FALSE, !.alreadyEnabled = (r = "empty")]
    IN
    CASE r = "fail" ->
           St(Return(pr, FALSE),
              SetFields(prog, c, [moduleSign |-> "error", error |-> SignErrorMsg]), NoChain)
      [] r = "throw" -> OuterCatch(pr, prog, cur)
      [] OTHER ->
           St([pr EXCEPT !.pc = "submit", !.calls = Append(@, "submitEnableModule")],
              SetFields(prog, c, [moduleSign |-> "success", moduleEnable |-> "pending"]),
              NoChain)

\* signEnableModule resolved with `r`:
\*   "hash" (success, safeTxHash set), "empty" (success, empty safeTxHash),
\*   "nodata" (success, no data), "fail", "throw"
AfterSign(pr0, r, prog, cur) ==
    LET c == pr0.chain
        pr == [pr0 EXCEPT !.onTarget = FALSE, !.alreadyEnabled = (r = "empty")]
    IN
    CASE r = "fail" ->
           St(Return(pr, FALSE),
              SetFields(prog, c, [moduleSign |-> "error", error |-> SignErrorMsg]), NoChain)
      [] r = "throw" -> OuterCatch(pr, prog, cur)
      [] r = "empty" ->
           St(Return(pr, TRUE),
              SetFields(prog, c, [moduleSign |-> "success", moduleEnable |-> "success",
                                  moduleVerify |-> "success"]),
              NoChain)
      [] OTHER ->
           St([pr EXCEPT !.pc = "submit", !.calls = Append(@, "submitEnableModule")],
              SetFields(prog, c, [moduleSign |-> "success", moduleEnable |-> "pending"]),
              NoChain)

\* the submit step going on to the verification after a failed submit
AfterSubmit_NoGate(pr, r, env, lag, prog, cur) ==
    LET c == pr.chain IN
    CASE r = "throw" -> OuterCatch(pr, prog, cur)
      [] r = "ok" /\ env # "ok" ->
           St(Return(pr, FALSE),
              SetFields(prog, c, [moduleEnable |-> "success", moduleVerify |-> "error",
                                  error |-> VerifyFailedMsg]), cur)
      [] OTHER ->
           St([pr EXCEPT !.pc = "verify", !.attempt = 0, !.lag = lag,
                         !.calls = Append(@, "isModuleEnabled")],
              SetFields(prog, c,
                        IF r = "fail"
                        THEN [moduleEnable |-> "error", error |-> SubmitErrorMsg,
                              moduleVerify |-> "pending"]
                        ELSE [moduleEnable |-> "success", moduleVerify |-> "pending"]),
              cur)

\* submitEnableModule resolved with `r`; `env` says whether the Ethereum provider
\* and the module address are there when verifyModuleEnabled is entered
AfterSubmit(pr, r, env, lag, prog, cur) ==
    LET c == pr.chain IN
    CASE r = "fail" ->
           St(Return(pr, FALSE),
              SetFields(prog, c, [moduleEnable |-> "error", error |-> SubmitErrorMsg]), cur)
      [] r = "throw" -> OuterCatch(pr, prog, cur)
      [] r = "ok" /\ env # "ok" ->
           St(Return(pr, FALSE),
              SetFields(prog, c, [moduleEnable |-> "success", moduleVerify |-> "error",
                                  error |-> VerifyFailedMsg]), cur)
      [] OTHER ->
           St([pr EXCEPT !.pc = "verify", !.attempt = 0, !.lag = lag,
                         !.calls = Append(@, "isModuleEnabled")],
              SetFields(prog, c, [moduleEnable |-> "success", moduleVerify |-> "pending"]),
              cur)

\* the retry loop never giving up on a throwing read
verifyModuleEnabled_NoBudget(attempt, maxRetries, read) ==
    IF read # "throw" THEN read ELSE "retry"

\* verifyModuleEnabled: what the loop does with the read of attempt `attempt`
\* (read is "true", "false" or "throw")
verifyModuleEnabled(attempt, maxRetries, read) ==
    IF read # "throw" THEN read
    ELSE IF attempt + 1 < maxRetries THEN "retry" ELSE "throw"

\* the on-chain read isModuleEnabled of attempt `attempt`, the module being
\* visible to reads after `lag` of them
isModuleEnabled(attempt, lag) == IF attempt >= lag THEN "true" ELSE "false"

\* one read of the verify step came back
AfterRead(pr, read, prog, cur) ==
    LET c == pr.chain
        v == verifyModuleEnabled(pr.attempt, VerifyMaxRetries, read)
    IN
    CASE v = "true" ->
           St(Return(pr, TRUE), SetFields(prog, c, [moduleVerify |-> "success"]), cur)
      [] v = "false" ->
           St(Return(pr, FALSE),
              SetFields(prog, c, [moduleVerify |-> "error", error |-> NotEnabledMsg]), cur)
      [] v = "retry" ->
           St([pr EXCEPT !.attempt = @ + 1, !.calls = Append(@, "isModuleEnabled")],
              prog, cur)
      [] OTHER ->
           St(Return(pr, FALSE),
              SetFields(prog, c, [moduleVerify |-> "error", error |-> VerifyFailedMsg]), cur)

(***************************************************************************)
(* startOnboarding's for loop and the tails of the two public operations.  *)
(***************************************************************************)
\* the reads the two callbacks make of the `progress` their closure captured
CompleteIn(prog) == { c \in DOMAIN prog : AllSuccess(prog[c]) }
VerifiedIn(prog) == { c \in DOMAIN prog : prog[c].moduleVerify = "success" }
IdentMatches(chains, ident) == { c \in Range(chains) : IdentifierMatch(c, ident) }

\* the loop without its skip of complete chains
Skipped_Never(pr, c) == FALSE

\* "Skip if already complete"
Skipped(pr, c) == c \in pr.snap

\* the for loop taking the chains from the end of the list
Advance_LastFirst(pr, from, chains, prog, cur) ==
    LET cand == { i \in from..Len(chains) : ~Skipped(pr, chains[i]) }
        last == CHOOSE i \in cand : \A j \in cand : j <= i
    IN
    IF cand = {}
    THEN St([pr EXCEPT !.pc = "refetch", !.chain = NoChain, !.idx = Len(chains) + 1,
                       !.calls = <<>>, !.attempt = 0, !.lag = 0, !.ret = FALSE,
                       !.createResult = "none", !.alreadyEnabled = FALSE],
            prog, cur)
    ELSE BeginChain([pr EXCEPT !.idx = last], chains[last], prog, cur)

\* the for loop leaving at the first chain that failed (a `break` at line 495)
Advance_StopsOnFailure(pr, from, chains, prog, cur) ==
    LET cand == { i \in from..Len(chains) : ~Skipped(pr, chains[i]) } IN
    IF cand = {} \/ ~pr.allSuccessful
    THEN St([pr EXCEPT !.pc = "refetch", !.chain = NoChain, !.idx = Len(chains) + 1,
                       !.calls = <<>>, !.attempt = 0, !.lag = 0, !.ret = FALSE,
                       !.createResult = "none", !.alreadyEnabled = FALSE],
            prog, cur)
    ELSE BeginChain([pr EXCEPT !.idx = Min(cand)], chains[Min(cand)], prog, cur)

\* the for loop from position `from`: skip the complete chains, enter
\* processChain for the first other one, or leave the loop and refetch
Advance(pr, from, chains, prog, cur) ==
    LET cand == { i \in from..Len(chains) : ~Skipped(pr, chains[i]) } IN
    IF cand = {}
    THEN St([pr EXCEPT !.pc = "refetch", !.chain = NoChain, !.idx = Len(chains) + 1,
                       !.calls = <<>>, !.attempt = 0, !.lag = 0, !.ret = FALSE,
                       !.createResult = "none", !.alreadyEnabled = FALSE],
            prog, cur)
    ELSE BeginChain([pr EXCEPT !.idx = Min(cand)], chains[Min(cand)], prog, cur)

\* retryChain's allComplete, over the captured `progress`
AllComplete(pr, chains) ==
    \A i \in 1..Len(chains) :
        \/ chains[i] \in pr.ident
        \/ chains[i] \in pr.snap

\* the tail of startOnboarding clearing needsOnboarding whatever the chains returned
MarksComplete_IgnoresFailures(pr, chains) ==
    IF pr.kind = "start" THEN TRUE ELSE AllComplete(pr, chains)

\* does the tail of the operation clear needsOnboarding (and isOnboarding for retry)
MarksComplete(pr, chains) ==
    IF pr.kind = "start" THEN pr.allSuccessful ELSE AllComplete(pr, chains)

\* fetchUserData: the record, or null when the request fails or is refused
fetchUserData(record, ok) == IF ok THEN record ELSE NoRecord

(***************************************************************************)
(* The needs-onboarding effect and checkUser.                              *)
(***************************************************************************)
EffectGuard(rdy, auth, wallet, mode, choice) ==
    rdy /\ auth /\ wallet /\ mode = "true" /\ choice

\* the effect, run with the new values of its dependencies; `needs` is
\* needsOnboarding as the triggering action leaves it
NeedsEffect(rdy, auth, wallet, mode, choice, user, needs) ==
    IF EffectGuard(rdy, auth, wallet, mode, choice)
    THEN /\ Len(checks) < MaxChecks
         /\ isCheckingUser' = TRUE
         /\ \E ok \in BOOLEAN : checks' = Append(checks, fetchUserData(user, ok))
         /\ needsOnboarding' = needs
    ELSE /\ needsOnboarding' = FALSE
         /\ UNCHANGED << isCheckingUser, checks >>

\* checkUser taking a null user for a user with nothing left to set up
checkUser_NullMeansDone(user, chains, prog) ==
    IF ~user.exists THEN [needs |-> FALSE, prog |-> prog]
    ELSE IF \E i \in 1..Len(chains) : RequiresSetup(chains[i], user)
    THEN [needs |-> TRUE,
          prog |-> [c \in DOMAIN prog |->
                      IF c \in Range(chains) /\ HasWallet(c, user)
                      THEN SuccessProgress ELSE prog[c]]]
    ELSE [needs |-> FALSE, prog |-> prog]

\* checkUser with the setProgress call of lines 427-448 dropped
checkUser_NoPreFill(user, chains, prog) ==
    IF ~user.exists THEN [needs |-> TRUE, prog |-> prog]
    ELSE [needs |-> \E i \in 1..Len(chains) : RequiresSetup(chains[i], user),
          prog |-> prog]

\* checkUser once fetchUserData has resolved to `user` (NoRecord is null)
checkUser(user, chains, prog) ==
    IF ~user.exists THEN [needs |-> TRUE, prog |-> prog]
    ELSE IF \E i \in 1..Len(chains) : RequiresSetup(chains[i], user)
    THEN [needs |-> TRUE,
          prog |-> [c \in DOMAIN prog |->
                      IF c \in Range(chains) /\ HasWallet(c, user)
                      THEN SuccessProgress ELSE prog[c]]]
    ELSE [needs |-> FALSE, prog |-> prog]

(***************************************************************************)
(* Initial state: the provider is mounted, its mount effects have run.     *)
(***************************************************************************)
Init ==
    /\ ready = FALSE
    /\ authenticated = FALSE
    /\ walletAddress = FALSE
    /\ userRecord = NoRecord
    /\ modePending = TRUE
    /\ isModeValid = "null"
    /\ chainsToSetup = <<>>
    /\ isCheckingUser = FALSE
    /\ needsOnboarding = FALSE
    /\ isOnboarding = FALSE
    /\ progress = EmptyProgress
    /\ currentSigningChain = NoChain
    /\ walletChoiceCompleted = FALSE
    /\ initialCheckDone = FALSE
    /\ earlyCheck = FALSE
    /\ checks = <<>>
    /\ procs = [p \in ProcIds |-> FreeProc]
    /\ ops = 0
    /\ hooks = [h \in Hooks |-> MountedHook]
    /\ slack = MountedSlack

(***************************************************************************)
(* Authentication, mode validation, wallet choice.                         *)
(***************************************************************************)
\* Privy becomes ready (nobody is logged in yet): the early effect runs again
\* and takes its "before auth" branch
PrivyReady ==
    /\ ~ready
    /\ ready' = TRUE
    /\ walletChoiceCompleted' = FALSE
    /\ initialCheckDone' = FALSE
    /\ needsOnboarding' = FALSE
    /\ isOnboarding' = FALSE
    /\ UNCHANGED << authenticated, walletAddress, userRecord, modeVars,
                    isCheckingUser, progress, currentSigningChain, earlyCheck, checks,
                    procs, ops, hookVars >>

Login ==
    /\ ready /\ ~authenticated
    /\ \E rec \in UserRecords, w \in BOOLEAN :
         /\ authenticated' = TRUE
         /\ userRecord' = rec
         /\ walletAddress' = w
         /\ earlyCheck' = TRUE
         /\ NeedsEffect(ready, TRUE, w, isModeValid, walletChoiceCompleted, rec,
                        needsOnboarding)
    /\ UNCHANGED << ready, modeVars, isOnboarding, progress, currentSigningChain,
                    walletChoiceCompleted, initialCheckDone, procs, ops, hookVars >>

WalletConnected ==
    /\ authenticated /\ ~walletAddress
    /\ walletAddress' = TRUE
    /\ NeedsEffect(ready, authenticated, TRUE, isModeValid, walletChoiceCompleted,
                   userRecord, needsOnboarding)
    /\ UNCHANGED << ready, authenticated, userRecord, modeVars, isOnboarding,
                    progress, currentSigningChain, walletChoiceCompleted,
                    initialCheckDone, earlyCheck, procs, ops, hookVars >>

\* logout: the early effect resets the session flags and cancels its fetch
Logout ==
    /\ authenticated
    /\ authenticated' = FALSE
    /\ walletAddress' = FALSE
    /\ userRecord' = NoRecord
    /\ walletChoiceCompleted' = FALSE
    /\ initialCheckDone' = FALSE
    /\ needsOnboarding' = FALSE
    /\ isOnboarding' = FALSE
    /\ earlyCheck' = FALSE
    /\ UNCHANGED << ready, modeVars, isCheckingUser, progress,
                    currentSigningChain, checks, procs, ops, hookVars >>

EarlyCheckDone ==
    /\ earlyCheck
    /\ earlyCheck' = FALSE
    /\ initialCheckDone' = TRUE
    /\ \E ok \in BOOLEAN :
         LET user == fetchUserData(userRecord, ok)
             choice == IF user.exists THEN TRUE ELSE walletChoiceCompleted
         IN /\ walletChoiceCompleted' = choice
            /\ IF choice # walletChoiceCompleted
               THEN NeedsEffect(ready, authenticated, walletAddress, isModeValid, choice,
                                userRecord, needsOnboarding)
               ELSE UNCHANGED << needsOnboarding, isCheckingUser, checks >>
    /\ UNCHANGED << authVars, modeVars, isOnboarding, progress, currentSigningChain,
                    procs, ops, hookVars >>

setWalletChoiceCompleted ==
    \E value \in BOOLEAN :
        /\ value # walletChoiceCompleted
        /\ walletChoiceCompleted' = value
        /\ NeedsEffect(ready, authenticated, walletAddress, isModeValid, value,
                       userRecord, needsOnboarding)
        /\ UNCHANGED << authVars, modeVars, isOnboarding, progress, currentSigningChain,
                        initialCheckDone, earlyCheck, procs, ops, hookVars >>

\* validateMode of the mount effect resolves, or throws
ValidateModeDone ==
    /\ modePending
    /\ modePending' = FALSE
    /\ \/ \E chains \in ConfigLists :
            /\ isModeValid' = "true"
            /\ chainsToSetup' = chains
            /\ progress' = initializeProgress(chains)
            /\ NeedsEffect(ready, authenticated, walletAddress, "true",
                           walletChoiceCompleted, userRecord, needsOnboarding)
       \/ /\ isModeValid' = "false"
          /\ chainsToSetup' = <<>>
          /\ needsOnboarding' = FALSE
          /\ UNCHANGED << progress, isCheckingUser, checks >>
    /\ UNCHANGED << authVars, isOnboarding, currentSigningChain, walletChoiceCompleted,
                    initialCheckDone, earlyCheck, procs, ops, hookVars >>

\* the in-flight fetches without the i-th
Without(s, i) == SubSeq(s, 1, i - 1) \o SubSeq(s, i + 1, Len(s))

\* the fetch of an in-flight checkUser resolves
CheckUserDone ==
    \E i \in 1..Len(checks) :
        LET r == checkUser(checks[i], chainsToSetup, progress) IN
        /\ checks' = Without(checks, i)
        /\ needsOnboarding' = r.needs
        /\ progress' = r.prog
        /\ isCheckingUser' = FALSE
        /\ UNCHANGED << authVars, modeVars, isOnboarding, currentSigningChain,
                        walletChoiceCompleted, initialCheckDone, earlyCheck,
                        procs, ops, hookVars >>

(***************************************************************************)
(* The public operations.                                                  *)
(***************************************************************************)
sessionFrame ==
    UNCHANGED << authVars, modeVars, checkVars, hookVars >>

\* install the outcome `st` of a piece of processChain run by invocation p
Install(p, st) ==
    /\ procs' = [procs EXCEPT ![p] = st.proc]
    /\ progress' = st.prog
    /\ currentSigningChain' = st.cur

startOnboarding ==
    /\ ~isOnboarding
    /\ FreeSlots # {} /\ ops < MaxOps
    /\ ops' = ops + 1
    /\ isOnboarding' = TRUE
    /\ Install(Min(FreeSlots),
               Advance([FreeProc EXCEPT !.kind = "start", !.snap = CompleteIn(progress)],
                       1, chainsToSetup, progress, currentSigningChain))
    /\ UNCHANGED needsOnboarding
    /\ sessionFrame

retryChain ==
    \E ident \in Identifiers :
        LET found == { i \in 1..Len(chainsToSetup) :
                         IdentifierMatch(chainsToSetup[i], ident) } IN
        IF found = {}
        THEN UNCHANGED vars
        ELSE /\ FreeSlots # {} /\ ops < MaxOps
             /\ ops' = ops + 1
             /\ Install(Min(FreeSlots),
                        BeginChain([FreeProc EXCEPT
                                      !.kind = "retry",
                                      !.ident = IdentMatches(chainsToSetup, ident),
                                      !.snap = VerifiedIn(progress)],
                                   chainsToSetup[Min(found)], progress,
                                   currentSigningChain))
             /\ UNCHANGED << needsOnboarding, isOnboarding >>
             /\ sessionFrame

dismissOnboarding ==
    /\ needsOnboarding' = FALSE
    /\ isOnboarding' = FALSE
    /\ UNCHANGED << progress, currentSigningChain, procs, ops >>
    /\ sessionFrame

(***************************************************************************)
(* The awaits of processChain resolving.                                   *)
(***************************************************************************)
runFrame == UNCHANGED << needsOnboarding, isOnboarding, ops >> /\ sessionFrame

CreateWalletDone(p) ==
    /\ procs[p].pc = "create"
    /\ \E r \in {"ok", "fail", "throw"} :
         Install(p, AfterCreate(procs[p], r, progress, currentSigningChain))
    /\ runFrame

\* embeddedWallet.switchChain resolved (the provider may not have followed), or
\* ensureChainSelected threw
SwitchDone(p) ==
    /\ procs[p].pc = "switch"
    /\ \E r \in {"ok", "throw"}, followed \in BOOLEAN :
         /\ (r = "throw" => ~followed)
         /\ Install(p, AfterSwitch(procs[p], r, followed, progress, currentSigningChain))
    /\ runFrame

SignDone(p) ==
    /\ procs[p].pc = "sign"
    /\ \E r \in {"hash", "empty", "nodata", "fail", "throw"} :
         Install(p, AfterSign(procs[p], r, progress, currentSigningChain))
    /\ runFrame

SubmitDone(p) ==
    /\ procs[p].pc = "submit"
    /\ \E r \in {"ok", "fail", "throw"},
          env \in {"ok", "noProvider", "noModuleAddress"},
          lag \in 0..MaxLag :
         /\ (r # "ok" => env = "ok")
         /\ (r # "ok" \/ env # "ok" => lag = 0)
         /\ Install(p, AfterSubmit(procs[p], r, env, lag, progress, currentSigningChain))
    /\ runFrame

\* one isModuleEnabled read answers or throws
VerifyRead(p) ==
    /\ procs[p].pc = "verify"
    /\ procs[p].attempt < VerifyMaxRetries
    /\ \E read \in {isModuleEnabled(procs[p].attempt, procs[p].lag), "throw"} :
         Install(p, AfterRead(procs[p], read, progress, currentSigningChain))
    /\ runFrame

\* `await processChain(chain)` resumes in the caller
ProcessReturned(p) ==
    /\ procs[p].pc = "returned"
    /\ IF procs[p].kind = "start"
       THEN Install(p, Advance([procs[p] EXCEPT !.allSuccessful = @ /\ procs[p].ret],
                               procs[p].idx + 1, chainsToSetup, progress,
                               currentSigningChain))
       ELSE /\ procs' = [procs EXCEPT ![p] =
                           IF procs[p].ret
                           THEN [@ EXCEPT !.pc = "refetch", !.calls = <<>>, !.attempt = 0,
                                          !.lag = 0, !.createResult = "none",
                                          !.alreadyEnabled = FALSE]
                           ELSE FreeProc]
            /\ UNCHANGED << progress, currentSigningChain >>
    /\ runFrame

\* `await fetchUserData()` at the end of startOnboarding / retryChain resumes
RefetchDone(p) ==
    /\ procs[p].pc = "refetch"
    /\ procs' = [procs EXCEPT ![p] = FreeProc]
    /\ needsOnboarding' =
         IF MarksComplete(procs[p], chainsToSetup) THEN FALSE ELSE needsOnboarding
    /\ isOnboarding' =
         IF procs[p].kind = "start" \/ MarksComplete(procs[p], chainsToSetup)
         THEN FALSE ELSE isOnboarding
    /\ UNCHANGED << progress, currentSigningChain, ops >>
    /\ sessionFrame

\* A resolved `await processChain(...)` resumes its caller as a microtask: before
\* any other event, response or timer is handled.
Resuming == \E p \in ProcIds : procs[p].pc = "returned"

Next ==
    \/ \E p \in ProcIds : ProcessReturned(p)
    \/ /\ ~Resuming
       /\ \/ PrivyReady
          \/ Login
          \/ WalletConnected
          \/ Logout
          \/ EarlyCheckDone
          \/ setWalletChoiceCompleted
          \/ ValidateModeDone
          \/ CheckUserDone
          \/ startOnboarding
          \/ retryChain
          \/ dismissOnboarding
          \/ \E p \in ProcIds :
               \/ CreateWalletDone(p)
               \/ SwitchDone(p)
               \/ SignDone(p)
               \/ SubmitDone(p)
               \/ VerifyRead(p)
               \/ RefetchDone(p)

\* The whole provider, from mount.
Spec == Init /\ [][Next /\ ops' <= MaxSessionOps]_vars

\* The session alone, from mount: authentication, mode validation, wallet
\* choice and checkUser, with no onboarding operation invoked.
NextSession ==
    \/ PrivyReady
    \/ Login
    \/ WalletConnected
    \/ Logout
    \/ EarlyCheckDone
    \/ setWalletChoiceCompleted
    \/ ValidateModeDone
    \/ CheckUserDone

SpecSession == Init /\ [][NextSession]_vars

(***************************************************************************)
(* The two operations alone, in an established session: Privy ready, the   *)
(* user logged in with a wallet, the chain list resolved, the wallet       *)
(* choice made and checkUser done for a user who needs onboarding.         *)
(***************************************************************************)
RunRecords == { NoRecord, [exists |-> TRUE, testnet |-> TRUE, mainnet |-> FALSE] }

InitRun ==
    /\ ready = TRUE
    /\ authenticated = TRUE
    /\ walletAddress = TRUE
    /\ userRecord \in RunRecords
    /\ modePending = FALSE
    /\ isModeValid = "true"
    /\ chainsToSetup \in ConfigLists
    /\ isCheckingUser = FALSE
    /\ needsOnboarding = checkUser(userRecord, chainsToSetup,
                                   initializeProgress(chainsToSetup)).needs
    /\ needsOnboarding = TRUE
    /\ isOnboarding = FALSE
    /\ progress = checkUser(userRecord, chainsToSetup,
                            initializeProgress(chainsToSetup)).prog
    /\ currentSigningChain = NoChain
    /\ walletChoiceCompleted = TRUE
    /\ initialCheckDone = TRUE
    /\ earlyCheck = FALSE
    /\ checks = <<>>
    /\ procs = [p \in ProcIds |-> FreeProc]
    /\ ops = 0
    /\ hooks = [h \in Hooks |-> MountedHook]
    /\ slack = MountedSlack

NextRun ==
    \/ \E p \in ProcIds : ProcessReturned(p)
    \/ /\ ~Resuming
       /\ \/ startOnboarding
          \/ retryChain
          \/ dismissOnboarding
          \/ \E p \in ProcIds :
               \/ CreateWalletDone(p)
               \/ SwitchDone(p)
               \/ SignDone(p)
               \/ SubmitDone(p)
               \/ VerifyRead(p)
               \/ RefetchDone(p)

SpecRun == InitRun /\ [][NextRun]_vars

\* every initial state of SpecRun is a state the whole provider reaches
InitRunReached ==
    /\ ready /\ authenticated /\ walletAddress /\ userRecord \in RunRecords
    /\ ~modePending /\ isModeValid = "true" /\ ~isCheckingUser /\ needsOnboarding
    /\ ~isOnboarding
    /\ progress = checkUser(userRecord, chainsToSetup,
                            initializeProgress(chainsToSetup)).prog
    /\ currentSigningChain = NoChain /\ walletChoiceCompleted /\ initialCheckDone
    /\ ~earlyCheck /\ checks = <<>> /\ procs = [p \in ProcIds |-> FreeProc] /\ ops = 0

(***************************************************************************)
(* The hooks' operations, timers and awaits.                               *)
(***************************************************************************)
\* a caller of the hook shows a notification
CallShowNotification(h) ==
    /\ hooks[h].mounted /\ hooks[h].shown < MaxShows
    /\ \E type \in NotificationTypes :
         hooks' = [hooks EXCEPT ![h] = showNotification(@, type)]
    /\ UNCHANGED << providerVars, slack >>

CallClearNotification(h) ==
    /\ hooks[h].mounted
    /\ hooks' = [hooks EXCEPT ![h] = clearNotification(@)]
    /\ UNCHANGED << providerVars, slack >>

\* a pending auto-dismiss timer fires
NotificationTimeout(h) ==
    /\ \E handle \in hooks[h].timeouts :
         hooks' = [hooks EXCEPT ![h] = TimeoutFires(@, handle)]
    /\ UNCHANGED << providerVars, slack >>

\* the hook unmounts: the cleanup of its mount effect runs
Unmount(h) ==
    /\ hooks[h].mounted
    /\ hooks' = [hooks EXCEPT ![h] = UnmountHook(@)]
    /\ slack' = IF h = "slack"
                THEN [slack EXCEPT
                        !.intervals = IF slack.oauthPollIntervalRef # NoHandle
                                      THEN clearInterval(@, slack.oauthPollIntervalRef)
                                      ELSE @,
                        !.oauthTokenRef = FALSE]
                ELSE slack
    /\ UNCHANGED providerVars

\* the Slack hook shows a notification of the given type, or none
SlackShows(type) ==
    IF type = "none"
    THEN UNCHANGED hooks
    ELSE hooks' = [hooks EXCEPT !["slack"] = showNotification(@, type)]

FreeAuths == { k \in AuthIds : slack.auths[k].pc = "free" }

authorizeOAuth ==
    /\ hooks["slack"].mounted
    /\ FreeAuths # {}
    /\ slack' = [slack EXCEPT !.processing = TRUE, !.auths[Min(FreeAuths)].pc = "token"]
    /\ hooks' = [hooks EXCEPT !["slack"] = clearNotification(@)]
    /\ UNCHANGED providerVars

\* `await getPrivyAccessToken()` resumes: a token, none, or it threw
TokenDone(k) ==
    /\ slack.auths[k].pc = "token"
    /\ \E r \in {"token", "null", "throw"} :
         /\ slack' = CASE r = "token" -> [slack EXCEPT !.oauthTokenRef = TRUE,
                                                       !.auths[k].pc = "url"]
                       [] r = "null" -> [slack EXCEPT !.auths[k].pc = "done"]
                       [] r = "throw" -> AuthorizeCatch(slack, k)
         /\ SlackShows(IF r = "token" THEN "none" ELSE "error")
    /\ UNCHANGED providerVars

\* the fetch of the authorization URL resumes: the popup opens (or is blocked)
\* and the interval starts, or the request failed
UrlDone(k) ==
    /\ slack.auths[k].pc = "url"
    /\ \/ /\ \E popup \in {"open", "blocked"} : slack' = StartPolling(slack, k, popup)
          /\ UNCHANGED hooks
       \/ /\ slack' = AuthorizeCatch(slack, k)
          /\ SlackShows("error")
    /\ UNCHANGED providerVars

\* the popup of invocation k is closed
PopupClosed(k) ==
    /\ slack.auths[k].popup = "open"
    /\ slack' = [slack EXCEPT !.auths[k].popup = "closed"]
    /\ UNCHANGED << providerVars, hooks >>

\* the interval of invocation k ticks
PollTick(k) ==
    /\ k \in slack.intervals
    /\ slack.auths[k].pollCount <= maxPolls
    /\ slack' = Tick(slack, k).slack
    /\ SlackShows(Tick(slack, k).shows)
    /\ UNCHANGED providerVars

\* the fetch of the connections made by the tick that saw the popup closed
\* resumes (whatever it answered)
ConnectionsDone(k) ==
    /\ slack.auths[k].pc = "connections"
    /\ slack' = [slack EXCEPT !.oauthTokenRef = FALSE, !.auths[k].pc = "done"]
    /\ SlackShows("success")
    /\ UNCHANGED providerVars

\* The notifications of the three hooks, the provider idle.
NextNotify ==
    \E h \in Hooks :
        \/ CallShowNotification(h)
        \/ CallClearNotification(h)
        \/ NotificationTimeout(h)
        \/ Unmount(h)

SpecNotify == Init /\ [][NextNotify]_vars

\* The OAuth authorization of the Slack hook, the provider idle.
NextOAuth ==
    \/ authorizeOAuth
    \/ NotificationTimeout("slack")
    \/ Unmount("slack")
    \/ \E k \in AuthIds :
         \/ TokenDone(k)
         \/ UrlDone(k)
         \/ PopupClosed(k)
         \/ PollTick(k)
         \/ ConnectionsDone(k)

SpecOAuth == Init /\ [][NextOAuth]_vars

(***************************************************************************)
(* Properties.                                                             *)
(***************************************************************************)
Returned(p) == procs[p].pc = "returned"
ChainOf(p) == procs[p].chain
Entry(p) == progress[procs[p].chain]
Called(p, name) == \E i \in 1..Len(procs[p].calls) : procs[p].calls[i] = name
\* the step is a step of invocation p
StepOf(p) == procs'[p] # procs[p]

\* C1: when the verify step runs and the on-chain read answers false on attempts
\* 1 and 2 and true on attempt 3 (no read throws; the budget is VerifyMaxRetries),
\* processChain returns true with moduleVerify = success.
C1_VerifySucceedsOnThirdRead ==
    \A p \in ProcIds :
        ( /\ Returned(p)
          /\ Called(p, "isModuleEnabled")
          /\ procs[p].lag = 2
          /\ 2 < VerifyMaxRetries
          /\ procs[p].attempt = 0 )      \* attempt counts the reads that threw
        => (procs[p].ret /\ Entry(p).moduleVerify = "success")

\* C2: whenever processChain is entered again for a chain that failed before (by
\* retryChain or by a later startOnboarding), the chain's statuses are reset: at
\* the moment walletCreate turns pending the three later steps are idle.
Failed(e) ==
    \/ e.walletCreate = "error"
    \/ e.moduleSign = "error"
    \/ e.moduleEnable = "error"
    \/ e.moduleVerify = "error"
C2_RestartResetsToIdle ==
    [][ \A p \in ProcIds :
          (StepOf(p) /\ procs'[p].pc = "create" /\ Failed(progress[procs'[p].chain])
             /\ \A q \in ProcIds \ {p} : procs'[q].pc = "free")
          => LET e == progress'[procs'[p].chain] IN
             /\ e.walletCreate = "pending"
             /\ e.moduleSign = "idle"
             /\ e.moduleEnable = "idle"
             /\ e.moduleVerify = "idle" ]_vars

\* C3: at most one chain has moduleSign = pending, and while an invocation is in
\* its sign step (switching, or waiting for the signature) currentSigningChain
\* names its chain.
C3_SingleSignaturePrompt ==
    /\ Cardinality({ c \in DOMAIN progress : progress[c].moduleSign = "pending" }) <= 1
    /\ \A p \in ProcIds :
         procs[p].pc \in {"switch", "sign"} => currentSigningChain = ChainOf(p)

\* C4: full runs never overlap: at most one startOnboarding is inside its chain
\* loop at any time.
InChainLoop(p) ==
    /\ procs[p].kind = "start"
    /\ procs[p].pc \in {"create", "switch", "sign", "submit", "verify", "returned"}
C4_FullRunsNeverOverlap ==
    Cardinality({ p \in ProcIds : InChainLoop(p) }) <= 1

\* C5: when signEnableModule returns success with an empty safeTxHash,
\* processChain returns true at once: submitEnableModule and the on-chain read
\* are never called, and moduleEnable and moduleVerify are success.
C5_AlreadyEnabledShortCircuit ==
    \A p \in ProcIds :
        procs[p].alreadyEnabled =>
            /\ Returned(p)
            /\ procs[p].ret
            /\ ~Called(p, "submitEnableModule")
            /\ ~Called(p, "isModuleEnabled")
            /\ Entry(p).moduleSign = "success"
            /\ Entry(p).moduleEnable = "success"
            /\ Entry(p).moduleVerify = "success"
C5_Witness ==
    \E p \in ProcIds : procs[p].alreadyEnabled /\ Returned(p)

\* C6: when createWallet returns failure, processChain returns with walletCreate =
\* error, the returned message as error, the three later steps idle, and no
\* switch, sign, submit or verify call made.  (Stated for the chains checkUser
\* has not pre-filled: a pre-filled entry shows later steps done with no
\* safeAddress; and for an invocation running alone.)
PreFilled(e) == e.moduleVerify = "success" /\ e.safeAddress = NoAddress
Alone(p) == \A q \in ProcIds \ {p} : procs[q].pc = "free"
C6_CreateFailureLeavesLaterStepsIdle ==
    \A p \in ProcIds :
        (procs[p].createResult = "failure" /\ ~PreFilled(Entry(p)) /\ Alone(p)) =>
            /\ Returned(p)
            /\ ~procs[p].ret
            /\ procs[p].calls = <<"createSafeWallet">>
            /\ Entry(p).walletCreate = "error"
            /\ Entry(p).error = CreateErrorMsg
            /\ Entry(p).moduleSign = "idle"
            /\ Entry(p).moduleEnable = "idle"
            /\ Entry(p).moduleVerify = "idle"

\* C7: when the wallet provider does not report the target chain as active after
\* the switch request, the wait times out and signEnableModule is never invoked:
\* processChain is at the sign call only with the provider on the target chain.
C7_SignOnlyOnTargetChain ==
    \A p \in ProcIds : procs[p].pc = "sign" => procs[p].onTarget

\* C8: no step of retryChain(x), from its invocation to its end, changes the
\* progress entry of a chain other than x.
RetryStep(p) == StepOf(p) /\ (procs[p].kind = "retry" \/ procs'[p].kind = "retry")
RetryTarget(p) == IF procs[p].kind = "retry" THEN procs[p].ident ELSE procs'[p].ident
C8_RetryLeavesOtherChains ==
    [][ \A p \in ProcIds :
          RetryStep(p) =>
            \A c \in DOMAIN progress :
                c \notin RetryTarget(p) =>
                    (c \in DOMAIN progress' /\ progress'[c] = progress[c]) ]_vars
\* a retry has run to its return while another chain holds progress of its own
C8_Witness ==
    \E p \in ProcIds :
        /\ procs[p].kind = "retry" /\ Returned(p)
        /\ ~AllIdle(Entry(p))
        /\ \E c \in DOMAIN progress : c \notin procs[p].ident /\ ~AllIdle(progress[c])

\* the step in which the i-th in-flight checkUser fetch resolves
CheckStep(i) == i \in 1..Len(checks) /\ checks' = Without(checks, i)
Configured == Range(chainsToSetup)
Requiring(user) == { c \in Configured : RequiresSetup(c, user) }

\* C9 (as stated): after checkUser ran for a user with a record, every configured
\* chain that does not require setup has all four steps success, also when no
\* configured chain requires setup, and such chains alone leave needsOnboarding
\* false.
C9_EveryDoneChainPreFilled ==
    [][ \A i \in 1..Len(checks) :
          (CheckStep(i) /\ checks[i].exists) =>
             /\ \A c \in Configured \ Requiring(checks[i]) : AllSuccess(progress'[c])
             /\ (Requiring(checks[i]) = {} => ~needsOnboarding') ]_vars

\* C9 (amended): after checkUser ran for a user with a record, if some configured
\* chain requires setup then needsOnboarding is true, every configured chain that
\* does not require setup is all-success and the requiring chains' entries are
\* as before; if no configured chain requires setup, needsOnboarding is false and
\* the progress map is left as it was.
C9_PreFillOnlyWhenSomeChainRequires ==
    [][ \A i \in 1..Len(checks) :
          (CheckStep(i) /\ checks[i].exists) =>
             IF Requiring(checks[i]) # {}
             THEN /\ needsOnboarding'
                  /\ \A c \in Configured \ Requiring(checks[i]) :
                        progress'[c] = SuccessProgress
                  /\ \A c \in Requiring(checks[i]) : progress'[c] = progress[c]
             ELSE /\ ~needsOnboarding'
                  /\ progress' = progress ]_vars

C9_Witness ==
    /\ checks = <<>> /\ ~isCheckingUser /\ needsOnboarding
    /\ userRecord.exists
    /\ Requiring(userRecord) # {}
    /\ \E c \in Configured \ Requiring(userRecord) : progress[c] = SuccessProgress

\* C10: when checkUser finds no record for a brand-new user (authentication
\* ready, chain list resolved), needsOnboarding becomes true and every configured
\* chain's entry has all four steps idle.
C10_NewUserStartsIdle ==
    [][ \A i \in 1..Len(checks) :
          (CheckStep(i) /\ checks[i] = NoRecord /\ userRecord = NoRecord
             /\ ready /\ authenticated /\ walletAddress /\ isModeValid = "true") =>
             /\ needsOnboarding'
             /\ \A c \in Configured : AllIdle(progress'[c]) ]_vars

\* the effect's guard holds and no checkUser fetch is in flight: the last
\* checkUser of this session has run to its end
CheckSettled ==
    /\ EffectGuard(ready, authenticated, walletAddress, isModeValid, walletChoiceCompleted)
    /\ checks = <<>>

\* the claim's own reading of "requires setup"
NoWalletFor(c, user) ==
    \/ isTestnet(c) /\ ~user.testnet
    \/ ~isTestnet(c) /\ ~user.mainnet

\* C11: for a user with a record, a configured chain requires setup iff it is a
\* testnet chain and the record has no testnet wallet, or a mainnet chain and the
\* record has no mainnet wallet; and checkUser sets needsOnboarding to true iff
\* at least one configured chain requires setup.
C11_NeedsIffSomeChainLacksWallet ==
    [][ \A i \in 1..Len(checks) :
          (CheckStep(i) /\ checks[i].exists) =>
             /\ \A c \in Configured :
                   RequiresSetup(c, checks[i]) <=> NoWalletFor(c, checks[i])
             /\ needsOnboarding' <=> \E c \in Configured : NoWalletFor(c, checks[i]) ]_vars

C11_Witness ==
    /\ CheckSettled /\ userRecord.exists /\ ~needsOnboarding
    /\ Len(chainsToSetup) = 2
    /\ \A c \in Configured : ~NoWalletFor(c, userRecord)

\* C12: when the user-record fetch of checkUser fails (fetchUserData yields null,
\* as it does for a transport error or a non-OK response), checkUser ends with
\* needsOnboarding = true and isCheckingUser = false.
C12_FetchFailureNeedsOnboarding ==
    [][ \A i \in 1..Len(checks) :
          (CheckStep(i) /\ checks[i] = NoRecord) =>
             needsOnboarding' /\ ~isCheckingUser' ]_vars

\* a user with a record and nothing left to set up is shown onboarding: the
\* fetch of the last checkUser failed
C12_Witness ==
    /\ CheckSettled /\ userRecord.exists /\ Requiring(userRecord) = {}
    /\ needsOnboarding /\ ~isCheckingUser

\* steps of a full run, the step that ends it, the step in which its
\* processChain returns
StartStep(p) == StepOf(p) /\ (procs[p].kind = "start" \/ procs'[p].kind = "start")
RunEnds(p) ==
    procs[p].kind = "start" /\ procs[p].pc = "refetch" /\ procs'[p].pc = "free"
ChainReturns(p) == procs[p].pc # "returned" /\ procs'[p].pc = "returned"
\* the run is the only operation invoked so far
FirstOperation == ops = 1

\* C13: the end of a full run sets needsOnboarding to false only if every chain
\* the run processed returned success, and leaves it as it is otherwise; a step
\* of the run changes no entry but that of the chain being processed; and in a
\* run alone a chain that returned success is all-success (so with chain A
\* succeeding and chain B failing, needsOnboarding is still true at the end and
\* chain A is all-success).
C13_FailedRunKeepsNeedsOnboarding ==
    [][ \A p \in ProcIds :
          /\ RunEnds(p) =>
                IF procs[p].allSuccessful
                THEN ~needsOnboarding'
                ELSE needsOnboarding' = needsOnboarding
          /\ (RunEnds(p) /\ FirstOperation
                /\ \E c \in Configured : ~AllSuccess(progress[c])) =>
                needsOnboarding' = needsOnboarding
          /\ StartStep(p) =>
                \A c \in DOMAIN progress \ {procs'[p].chain} : progress'[c] = progress[c]
          /\ (StartStep(p) /\ ChainReturns(p) /\ procs'[p].ret /\ FirstOperation) =>
                AllSuccess(progress'[procs'[p].chain]) ]_vars

\* a first full run over two chains has ended: the first chain was processed
\* to all-success, the second failed at wallet-create, needsOnboarding is true
C13_Witness ==
    /\ FirstOperation /\ \A p \in ProcIds : procs[p].pc = "free"
    /\ Len(chainsToSetup) = 2
    /\ AllSuccess(progress[chainsToSetup[1]])
    /\ progress[chainsToSetup[1]].safeAddress # NoAddress
    /\ progress[chainsToSetup[2]].walletCreate = "error"
    /\ needsOnboarding /\ ~isOnboarding

\* C14: in a full run the loop goes on whatever a chain returned: it enters
\* processChain (one createSafeWallet call) for the next configured chain that
\* was not all-success when the run started, passing over only chains that were,
\* and leaves only when no such chain remains; positions only increase, so each
\* such chain gets exactly one call, and after a first run no configured chain
\* is left with walletCreate idle.
C14_LoopAttemptsEveryChain ==
    [][ \A p \in ProcIds :
          /\ \A i \in 1..Len(procs[p].calls) :
                procs[p].calls[i] = "createSafeWallet" => i = 1
          /\ (StartStep(p) /\ procs[p].kind = "free") =>
                procs'[p].snap = CompleteIn(progress)
          /\ (StartStep(p) /\ procs[p].pc = "returned") =>
                procs'[p].pc \in {"create", "refetch"}
          /\ (StartStep(p) /\ procs'[p].pc = "create") =>
                /\ procs'[p].idx > procs[p].idx
                /\ procs'[p].chain = chainsToSetup[procs'[p].idx]
                /\ procs'[p].chain \notin procs'[p].snap
                /\ procs'[p].calls = <<"createSafeWallet">>
                /\ \A i \in (procs[p].idx + 1)..(procs'[p].idx - 1) :
                      chainsToSetup[i] \in procs'[p].snap
          /\ (StartStep(p) /\ procs'[p].pc = "refetch") =>
                \A i \in (procs[p].idx + 1)..Len(chainsToSetup) :
                    chainsToSetup[i] \in procs'[p].snap
          /\ (RunEnds(p) /\ FirstOperation) =>
                \A c \in Configured : progress[c].walletCreate # "idle" ]_vars

\* a first full run over two chains has ended: the first chain failed at
\* wallet-create and the second was processed all the same
C14_Witness ==
    /\ FirstOperation /\ \A p \in ProcIds : procs[p].pc = "free"
    /\ Len(chainsToSetup) = 2
    /\ progress[chainsToSetup[1]].walletCreate = "error"
    /\ progress[chainsToSetup[2]].walletCreate = "success"
    /\ progress[chainsToSetup[2]].safeAddress # NoAddress

\* C15: a chain that has reached moduleVerify = success is not processed again by
\* a later full run: a run invoked while a chain is at moduleVerify = success
\* skips that chain, whatever startOnboarding and retryChain did before.
C15_VerifiedChainNeverReprocessed ==
    [][ \A p \in ProcIds :
          (StartStep(p) /\ procs[p].kind = "free") =>
             \A c \in Configured :
                 progress[c].moduleVerify = "success" => Skipped(procs'[p], c) ]_vars

\* C16: when the user logs out the whole onboarding session state is reset to
\* empty: needsOnboarding and isOnboarding false, no non-idle entry in the
\* progress map, currentSigningChain null.
C16_LogoutResetsSession ==
    [][ (authenticated /\ ~authenticated') =>
          /\ ~needsOnboarding'
          /\ ~isOnboarding'
          /\ \A c \in DOMAIN progress' : AllIdle(progress'[c])
          /\ currentSigningChain' = NoChain ]_vars

\* the step that ends a retryChain whose chain succeeded (after its refetch),
\* and the step in which a retryChain resumes after a failed processChain
RetryEnds(p) ==
    procs[p].kind = "retry" /\ procs[p].pc = "refetch" /\ procs'[p].pc = "free"
RetryFails(p) ==
    procs[p].kind = "retry" /\ Returned(p) /\ ~procs[p].ret /\ StepOf(p)

\* C17: retryChain clears needsOnboarding or isOnboarding only at the end of a
\* retry whose chain succeeded, and only if at that moment every other
\* configured chain is at moduleVerify = success; a failed retry leaves both
\* flags as they are.
C17_RetryCompletesOnlyWhenAllVerified ==
    [][ \A p \in ProcIds :
          /\ (RetryEnds(p) /\ (needsOnboarding' # needsOnboarding
                                  \/ isOnboarding' # isOnboarding)) =>
                /\ ~needsOnboarding' /\ ~isOnboarding'
                /\ \A c \in Configured \ procs[p].ident :
                      progress[c].moduleVerify = "success"
          /\ RetryFails(p) =>
                UNCHANGED << needsOnboarding, isOnboarding >> ]_vars

InProcessChain(p) == procs[p].pc \in {"create", "switch", "sign", "submit", "verify"}

\* C18: startOnboarding and retryChain never throw: whatever a collaborator call
\* does (returns failure, throws, rejects), processChain resolves with a boolean
\* and the operation goes on to its normal end; a processChain that returns
\* false has written the chain's error field.
C18_OperationsResolveNormally ==
    [][ \A p \in ProcIds :
          StepOf(p) =>
            /\ InProcessChain(p) =>
                  /\ procs'[p].kind = procs[p].kind
                  /\ procs'[p].pc \in {"switch", "sign", "submit", "verify", "returned"}
            /\ (ChainReturns(p) /\ ~procs'[p].ret) =>
                  progress'[procs'[p].chain].error # NoError
            /\ Returned(p) =>
                  IF procs[p].kind = "start"
                  THEN procs'[p].kind = "start" /\ procs'[p].pc \in {"create", "refetch"}
                  ELSE IF procs[p].ret
                  THEN procs'[p].kind = "retry" /\ procs'[p].pc = "refetch"
                  ELSE procs'[p].pc = "free"
            /\ procs[p].pc = "refetch" =>
                  /\ procs'[p].pc = "free"
                  /\ procs[p].kind = "start" => ~isOnboarding' ]_vars

\* a collaborator call threw and processChain has returned false
C18_Witness ==
    \E p \in ProcIds :
        Returned(p) /\ ~procs[p].ret /\ Entry(p).error = ThrownMsg

\* C19: when createSafeWallet, signEnableModule or submitEnableModule throws,
\* processChain catches it, sets the chain's error field, returns false, and the
\* step that was in flight is marked error.
C19_ThrowMarksStepError ==
    [][ \A p \in ProcIds :
          (ChainReturns(p) /\ progress'[procs'[p].chain].error = ThrownMsg) =>
             LET e == progress'[procs'[p].chain] IN
             /\ ~procs'[p].ret
             /\ procs[p].pc = "create" => e.walletCreate = "error"
             /\ procs[p].pc = "sign" => e.moduleSign = "error"
             /\ procs[p].pc = "submit" => e.moduleEnable = "error" ]_vars

\* the scenario: chains [sepolia, mainnet], a record with a testnet wallet and
\* no mainnet wallet
TestnetOnlyRecord == [exists |-> TRUE, testnet |-> TRUE, mainnet |-> FALSE]
TestnetDoneScenario ==
    chainsToSetup = <<"sepolia", "mainnet">> /\ userRecord = TestnetOnlyRecord

\* C20: in that scenario checkUser gives needsOnboarding = true with sepolia
\* pre-filled, and in every state of a full run (the first operation invoked)
\* sepolia is skipped, collaborators are called for mainnet only and sepolia's
\* entry stays all-success.
C20_RunProcessesOnlyMainnet ==
    TestnetDoneScenario =>
        /\ checkUser(userRecord, chainsToSetup, initializeProgress(chainsToSetup))
             = [needs |-> TRUE,
                prog |-> [c \in {"sepolia", "mainnet"} |->
                            IF c = "sepolia" THEN SuccessProgress ELSE IdleProgress]]
        /\ \A p \in ProcIds :
             (procs[p].kind = "start" /\ FirstOperation) =>
                /\ AllSuccess(progress["sepolia"])
                /\ progress["sepolia"] = SuccessProgress
                /\ procs[p].chain \in {NoChain, "mainnet"}
                /\ procs[p].calls # <<>> => procs[p].chain = "mainnet"

\* the run has processed mainnet to the end and is at its refetch
C20_Witness ==
    /\ TestnetDoneScenario /\ FirstOperation
    /\ \E p \in ProcIds : procs[p].kind = "start" /\ procs[p].pc = "refetch"
    /\ AllSuccess(progress["mainnet"])
    /\ progress["sepolia"] = SuccessProgress

\* the step in which retryChain enters processChain
RetryBegins(p) == StepOf(p) /\ procs[p].kind = "free" /\ procs'[p].kind = "retry"
\* the configured chains an identifier names, by stable id or numeric chain id
NamedBy(ident) ==
    { c \in Configured : (ident.str # "" /\ ident.str = c)
                           \/ (ident.num # -1 /\ ident.num = NumericChainId(c)) }

\* C21: retryChain enters processChain only for a configured chain its identifier
\* names by stable id or numeric chain id (an identifier naming no configured
\* chain starts nothing), that step touches only that chain's entry and leaves
\* needsOnboarding, isOnboarding and currentSigningChain alone, and the retry
\* stays on that chain until it ends.
C21_RetryProcessesOnlyItsTarget ==
    [][ \A p \in ProcIds :
          /\ RetryBegins(p) =>
                /\ \E ident \in Identifiers :
                      /\ NamedBy(ident) = {procs'[p].chain}
                      /\ procs'[p].ident = NamedBy(ident)
                /\ procs'[p].calls = <<"createSafeWallet">>
                /\ \A c \in DOMAIN progress \ {procs'[p].chain} :
                      progress'[c] = progress[c]
                /\ UNCHANGED << needsOnboarding, isOnboarding, currentSigningChain >>
          /\ (StepOf(p) /\ procs[p].kind = "retry") =>
                procs'[p].chain \in {procs[p].chain, NoChain} ]_vars

\* a retry named by an identifier has run its chain to success, another
\* configured chain being there
C21_Witness ==
    \E p \in ProcIds :
        /\ procs[p].kind = "retry" /\ procs[p].pc = "refetch"
        /\ Len(chainsToSetup) = 2
        /\ procs[p].ident = {procs[p].chain}

\* the collaborator calls of one processChain in their fixed order, the on-chain
\* read repeated up to its budget
CallOrder ==
    <<"createSafeWallet", "ensureChainSelected", "signEnableModule",
      "submitEnableModule">> \o [i \in 1..VerifyMaxRetries |-> "isModuleEnabled"]
MakesCall(p) == InProcessChain(p) /\ Len(procs'[p].calls) = Len(procs[p].calls) + 1

\* C22: within one processChain the collaborator calls are a prefix of
\* createWallet, switch, sign, submit, isModuleEnabled (repeated); a call is made
\* only in the step in which the previous call came back with success, and
\* processChain returns true only from the on-chain read or from the
\* already-enabled short-circuit of the sign step.
C22_CallsInOrderGatedOnSuccess ==
    [][ \A p \in ProcIds :
          /\ Len(procs[p].calls) <= Len(CallOrder)
          /\ \A i \in 1..Len(procs[p].calls) : procs[p].calls[i] = CallOrder[i]
          /\ InProcessChain(p) => procs[p].calls # <<>>
          /\ (StepOf(p) /\ MakesCall(p)) =>
                LET e == progress'[procs[p].chain] IN
                /\ procs'[p].calls = Append(procs[p].calls,
                                            CallOrder[Len(procs[p].calls) + 1])
                /\ procs[p].pc = "create" =>
                      e.walletCreate = "success" /\ procs'[p].createResult = "success"
                /\ procs[p].pc = "switch" => procs'[p].pc = "sign"
                /\ procs[p].pc = "sign" =>
                      e.moduleSign = "success" /\ ~procs'[p].alreadyEnabled
                /\ procs[p].pc = "submit" => e.moduleEnable = "success"
                /\ procs[p].pc = "verify" => procs'[p].attempt = procs[p].attempt + 1
          /\ (StepOf(p) /\ ChainReturns(p) /\ procs'[p].ret) =>
                \/ procs[p].pc = "verify"
                \/ procs[p].pc = "sign" /\ procs'[p].alreadyEnabled ]_vars

\* a processChain has made all five calls and returned true
C22_Witness ==
    \E p \in ProcIds :
        /\ Returned(p) /\ procs[p].ret
        /\ procs[p].calls = SubSeq(CallOrder, 1, 5)

\* C23: in every state and for every chain the step statuses are monotonic: a
\* step that is not idle has every earlier step at success.
C23_StatusesMonotonic ==
    \A c \in DOMAIN progress :
        LET e == progress[c] IN
        /\ e.moduleSign # "idle" => e.walletCreate = "success"
        /\ e.moduleEnable # "idle" =>
              e.walletCreate = "success" /\ e.moduleSign = "success"
        /\ e.moduleVerify # "idle" =>
              /\ e.walletCreate = "success" /\ e.moduleSign = "success"
              /\ e.moduleEnable = "success"

\* C24: the currently-signing slot is released on every exit path: whenever
\* processChain for chain c has returned (the operation being the only one
\* invoked), currentSigningChain is not c.
C24_SigningSlotReleased ==
    \A p \in ProcIds :
        (Returned(p) /\ FirstOperation) => currentSigningChain # ChainOf(p)

ReadsMade(p) ==
    Cardinality({ i \in 1..Len(procs[p].calls) : procs[p].calls[i] = "isModuleEnabled" })

\* C25: the verify step makes a bounded number of on-chain reads: a read is
\* repeated only after it threw and only within the budget (3 by default, 5 as
\* processChain calls it); when every read of the budget threw, moduleVerify is
\* error with the verification-failure message and processChain returns false;
\* when the module reports disabled, moduleVerify is error with 'Module not
\* enabled after transaction' and processChain returns false; no read follows.
C25_VerifyReadsBounded ==
    [][ \A p \in ProcIds :
          /\ ReadsMade(p) <= VerifyMaxRetries
          /\ \A budget \in {DefaultMaxRetries, VerifyMaxRetries} : \A a \in 0..(budget - 1) :
                /\ verifyModuleEnabled(a, budget, "false") = "false"
                /\ verifyModuleEnabled(a, budget, "throw") =
                      IF a = budget - 1 THEN "throw" ELSE "retry"
          /\ procs[p].pc = "verify" =>
                /\ procs[p].attempt < VerifyMaxRetries
                /\ ReadsMade(p) = procs[p].attempt + 1
          /\ (StepOf(p) /\ procs[p].pc = "verify") =>
                LET e == progress'[procs[p].chain] IN
                IF ChainReturns(p)
                THEN /\ procs'[p].calls = procs[p].calls
                     /\ procs'[p].ret => e.moduleVerify = "success"
                     /\ ~procs'[p].ret =>
                           /\ e.moduleVerify = "error"
                           /\ e.error \in {NotEnabledMsg, VerifyFailedMsg}
                           /\ e.error = VerifyFailedMsg =>
                                 procs[p].attempt = VerifyMaxRetries - 1
                     /\ procs[p].attempt < procs[p].lag =>
                           ~procs'[p].ret /\ e.error = NotEnabledMsg
                ELSE /\ procs'[p].pc = "verify"
                     /\ procs'[p].attempt = procs[p].attempt + 1
                     /\ procs'[p].attempt < VerifyMaxRetries
          /\ (StepOf(p) /\ Returned(p)) => ReadsMade(p) >= Cardinality(
                { i \in 1..Len(procs'[p].calls) : procs'[p].calls[i] = "isModuleEnabled" })
      ]_vars

\* every read of the budget threw and processChain returned false
C25_Witness ==
    \E p \in ProcIds :
        /\ Returned(p) /\ ~procs[p].ret
        /\ ReadsMade(p) = VerifyMaxRetries
        /\ Entry(p).moduleVerify = "error" /\ Entry(p).error = VerifyFailedMsg

InRunOn(p) == procs[p].kind = "start" /\ (InProcessChain(p) \/ Returned(p))

\* C26: a full run processes its chains one after the other in the order of
\* chainsToSetup: it enters processChain for a chain only when it is invoked or
\* when processChain of its previous chain has returned, always at a later
\* position; and in a run alone, while the chain at position i is processed every
\* earlier chain was complete at the start or has been entered, and no later
\* chain has been touched.
C26_ChainsInConfigurationOrder ==
    [][ \A p \in ProcIds :
          /\ (StepOf(p) /\ procs'[p].kind = "start" /\ procs'[p].chain # NoChain
                /\ procs'[p].chain # procs[p].chain) =>
                /\ procs[p].pc \in {"free", "returned"}
                /\ procs'[p].idx > procs[p].idx
          /\ InRunOn(p) =>
                /\ procs[p].idx \in 1..Len(chainsToSetup)
                /\ procs[p].chain = chainsToSetup[procs[p].idx]
          /\ (InRunOn(p) /\ FirstOperation) =>
                \A j \in 1..Len(chainsToSetup) :
                    /\ j < procs[p].idx =>
                          \/ chainsToSetup[j] \in procs[p].snap
                          \/ progress[chainsToSetup[j]].walletCreate # "idle"
                    /\ j > procs[p].idx =>
                          progress[chainsToSetup[j]] \in {IdleProgress, SuccessProgress}
      ]_vars

\* a first run that processed its first chain is at the verify step of its second
C26_Witness ==
    \E p \in ProcIds :
        /\ FirstOperation /\ procs[p].kind = "start" /\ procs[p].pc = "verify"
        /\ procs[p].idx = 2
        /\ chainsToSetup[1] \notin procs[p].snap

Pending(e) ==
    \/ e.walletCreate = "pending"
    \/ e.moduleSign = "pending"
    \/ e.moduleEnable = "pending"
    \/ e.moduleVerify = "pending"

\* C27: whenever processChain has returned for a chain (the operation being the
\* only one invoked), none of the chain's four statuses is pending, and if it
\* returned false at least one of them is error.
C27_NoPendingAfterReturn ==
    \A p \in ProcIds :
        (Returned(p) /\ FirstOperation) =>
            /\ ~Pending(Entry(p))
            /\ ~procs[p].ret => Failed(Entry(p))

\* C28: while the user is logged out needsOnboarding is false, and a checkUser
\* fetch that resolves for a logged-out session sets neither needsOnboarding nor
\* the progress map.
C28_LateCheckIgnoredAfterLogout ==
    [][ /\ ~authenticated' => ~needsOnboarding'
        /\ \A i \in 1..Len(checks) :
              (CheckStep(i) /\ ~authenticated) =>
                  ~needsOnboarding' /\ progress' = progress ]_vars

\* C29: in each of the Slack, Telegram and Email hooks at most one auto-dismiss
\* timer is pending, and a pending timer is the one started for the notification
\* now shown: no timer of an older notification, and no timer left behind by
\* clearNotification, is there to clear a later notification.
C29_OneTimerForShownNotification ==
    \A h \in Hooks :
        /\ Cardinality(hooks[h].timeouts) <= 1
        /\ \A handle \in hooks[h].timeouts :
             /\ hooks[h].notification # NoNotification
             /\ handle = hooks[h].notification.id

\* a hook shows its second notification, whose timer is the one pending
C29_Witness ==
    \E h \in Hooks :
        /\ hooks[h].shown = 2
        /\ hooks[h].notification.id = 2
        /\ hooks[h].timeouts = {2}

\* C30: the OAuth polling of the Slack hook is cleaned up: at most one poll
\* interval is active at a time, and none is active once the hook has unmounted.
C30_PollingCleanedUp ==
    /\ Cardinality(slack.intervals) <= 1
    /\ ~hooks["slack"].mounted => slack.intervals = {}
====
